---- MODULE Spec2Model ----
(***************************************************************************)
(* condensation::Sample (libCondensation/include/condensation/Sample.hpp): *)
(* the weighted sample of the particle filter, its two process-wide        *)
(* statics (aspectRatio, nextClusterId) and every operation the class      *)
(* offers: three constructors, the implicit copy constructor and copy      *)
(* assignment, the setters, the derived getters (getWidth, getHeight,      *)
(* getBounds), the weight comparisons and the two setAspectRatio           *)
(* overloads.                                                              *)
(*                                                                         *)
(* float/double values are exact rationals [n, d] with d > 0 in lowest     *)
(* terms.  Every value used is dyadic and small, so the IEEE arithmetic    *)
(* of the code is exact on it.  int values stay far inside the int range.  *)
(***************************************************************************)
EXTENDS Integers, Sequences, FiniteSets, TLC

VARIABLES
    samples,        \* the live Sample objects, in construction order
    aspectRatio,    \* static double Sample::aspectRatio
    nextClusterId,  \* static int Sample::nextClusterId
    build,          \* which branch of cvRound the build compiled in
    call,           \* the most recent call: operation, object, argument, returned value
    mutations       \* number of state-changing calls made since the initial state

vars == <<samples, aspectRatio, nextClusterId, build, call, mutations>>

\* ---------------------------------------------------------------- bounds
MaxSamples == 2
MaxMutations == 4
MaxGeoSize == 3

\* ------------------------------------------------------------- rationals
RECURSIVE Gcd(_, _)
Gcd(a, b) == IF b = 0 THEN a ELSE Gcd(b, a % b)

Abs(n) == IF n < 0 THEN -n ELSE n

\* n/d in lowest terms with a positive denominator (d # 0)
Rat(n, d) ==
    LET g == Gcd(Abs(n), Abs(d))
        s == IF d < 0 THEN -1 ELSE 1
    IN  [n |-> s * (n \div g), d |-> Abs(d) \div g]

One == Rat(1, 1)
Zero == Rat(0, 1)

RatLess(a, b) == a.n * b.d < b.n * a.d
RatMulInt(a, k) == Rat(a.n * k, a.d)

\* C++ int / int: the quotient truncated towards zero (b # 0)
IntDiv(a, b) ==
    LET q == Abs(a) \div Abs(b)
    IN  IF (a < 0) = (b < 0) THEN q ELSE -q

\* ---------------------------------------------------------------- inputs
\* arguments of Sample(x, y, size) and of Sample(x, y, size, vx, vy, vsize)
AtArgs == {<<3, 0, 1>>, <<0, 3, 2>>}
MovingArgs == {<<3, 3, 2, 1, 0, Rat(1, 2)>>, <<0, 3, -1, 0, 1, Zero>>}
\* arguments of the setters
Coords == {3}
Sizes == {-1, 1, 2}
Velocities == {1}
VSizes == {Zero, Rat(1, 2)}
Weights == {Rat(1, 4), Rat(-1, 2)}
\* arguments of setAspectRatio(double) and setAspectRatio(int, int)
Ratios == {Rat(1, 2), Rat(3, 2)}
RatioWidths == {4}
RatioHeights == {1, 3}
Builds == {"lrint", "cast"}

\* ------------------------------------------------------- pure functions
\* variant: (int) value
cvRoundTruncating(r) == IntDiv(r.n, r.d)

\* cvRound(double): to the nearest int; a tie goes to the even neighbour where
\* the build uses the FPU's rounding (SSE2 cvtsd2si, lrint) and away from zero
\* where it uses (int)(value + (value >= 0 ? 0.5 : -0.5)).
cvRound(r) ==
    LET f == r.n \div r.d
        rem == r.n % r.d
    IN  IF 2 * rem < r.d THEN f
        ELSE IF 2 * rem > r.d THEN f + 1
        ELSE IF build = "lrint" THEN (IF f % 2 = 0 THEN f ELSE f + 1)
        ELSE (IF r.n >= 0 THEN f + 1 ELSE f)

getX(s) == s.x
getY(s) == s.y
getSize(s) == s.size
getVx(s) == s.vx
getVy(s) == s.vy
getVSize(s) == s.vsize
getWeight(s) == s.weight
isObject(s) == s.object
getClusterId(s) == s.clusterId

getWidth(s) == s.size
getHeight(s) == cvRound(RatMulInt(aspectRatio, s.size))

\* cv::Rect(x, y, width, height)
Rect(x, y, width, height) == [x |-> x, y |-> y, width |-> width, height |-> height]

\* variant: halving with floor instead of truncation
getBoundsFlooring(s) ==
    Rect(s.x - (getWidth(s) \div 2), s.y - (getHeight(s) \div 2),
         getWidth(s), getHeight(s))

getBounds(s) ==
    Rect(s.x - IntDiv(getWidth(s), 2), s.y - IntDiv(getHeight(s), 2),
         getWidth(s), getHeight(s))

\* ---------------------------------------------------------------- state
\* the data members of one Sample
Members(x, y, size, vx, vy, vsize, weight, object, clusterId) ==
    [x |-> x, y |-> y, size |-> size, vx |-> vx, vy |-> vy, vsize |-> vsize,
     weight |-> weight, object |-> object, clusterId |-> clusterId]

NoCall == [op |-> "none", self |-> 0, arg |-> <<>>, val |-> <<>>]

Called(op, self, arg, val) == [op |-> op, self |-> self, arg |-> arg, val |-> val]

\* no sample constructed yet; the two statics as their definitions in
\* Sample.cpp initialise them (aspect ratio 1, first cluster id 0)
Init ==
    /\ samples = <<>>
    /\ aspectRatio = One
    /\ nextClusterId = 0
    /\ build \in Builds
    /\ call = NoCall
    /\ mutations = 0

Live == 1..Len(samples)

\* a state-changing call: counted, and leaves the build alone
Mutates ==
    /\ mutations < MaxMutations
    /\ mutations' = mutations + 1
    /\ build' = build

\* ---------------------------------------------------------- construction
\* variant: a constructor that starts the weight at zero
NewSampleUnweighted(x, y, size, vx, vy, vsize) ==
    Members(x, y, size, vx, vy, vsize, Zero, FALSE, nextClusterId)

\* the member initialisers shared by the three constructors:
\* weight(1), object(false), clusterId(nextClusterId++)
NewSample(x, y, size, vx, vy, vsize) ==
    Members(x, y, size, vx, vy, vsize, One, FALSE, nextClusterId)

\* a new object comes to life holding s; ids says whether nextClusterId++ ran
Construct(s, op, arg, ids) ==
    /\ Mutates
    /\ Len(samples) < MaxSamples
    /\ samples' = Append(samples, s)
    /\ nextClusterId' = nextClusterId + ids
    /\ call' = Called(op, Len(samples) + 1, arg, <<>>)
    /\ aspectRatio' = aspectRatio

\* variant: the default constructor reads nextClusterId without incrementing it
SampleDefaultSameId ==
    Construct(NewSample(0, 0, 0, 0, 0, One), "Sample()", <<>>, 0)

\* Sample()
SampleDefault ==
    Construct(NewSample(0, 0, 0, 0, 0, One), "Sample()", <<>>, 1)

\* variant: the three-argument constructor leaves vsize at zero
SampleAtStill(x, y, size) ==
    Construct(NewSample(x, y, size, 0, 0, Zero), "Sample(x,y,size)", <<x, y, size>>, 1)

\* Sample(int x, int y, int size)
SampleAt(x, y, size) ==
    Construct(NewSample(x, y, size, 0, 0, One), "Sample(x,y,size)", <<x, y, size>>, 1)

\* Sample(int x, int y, int size, int vx, int vy, float vsize)
SampleMoving(x, y, size, vx, vy, vsize) ==
    Construct(NewSample(x, y, size, vx, vy, vsize), "Sample(x,y,size,vx,vy,vsize)",
              <<x, y, size, vx, vy, vsize>>, 1)

\* variant: a copy constructor that draws a new id
CopyWithNewId(s) == [s EXCEPT !.clusterId = nextClusterId]

\* the implicit memberwise copy: all nine data members
CopyOf(s) == s

\* Sample(const Sample&), implicit
SampleCopy(j) ==
    Construct(CopyOf(samples[j]), "Sample(const Sample&)", j, 0)

\* Sample& operator=(const Sample&), implicit: samples[i] = samples[j]
SampleAssign(i, j) ==
    /\ Mutates
    /\ samples' = [samples EXCEPT ![i] = CopyOf(samples[j])]
    /\ call' = Called("operator=", i, j, <<>>)
    /\ UNCHANGED <<aspectRatio, nextClusterId>>

\* ----------------------------------------------------------------- setters
\* a setter of object i stored field values s over the object
Store(i, s, op, arg) ==
    /\ Mutates
    /\ samples' = [samples EXCEPT ![i] = s]
    /\ call' = Called(op, i, arg, <<>>)
    /\ UNCHANGED <<aspectRatio, nextClusterId>>

\* variants: setVy writing vx; setWeight also moving the sample to a new cluster
setVyIntoVx(i, vy) == Store(i, [samples[i] EXCEPT !.vx = vy], "setVy", vy)
setWeightNewCluster(i, weight) ==
    Store(i, [samples[i] EXCEPT !.weight = weight, !.clusterId = nextClusterId],
          "setWeight", weight)

setX(i, x) == Store(i, [samples[i] EXCEPT !.x = x], "setX", x)
setY(i, y) == Store(i, [samples[i] EXCEPT !.y = y], "setY", y)
setSize(i, size) == Store(i, [samples[i] EXCEPT !.size = size], "setSize", size)
setVx(i, vx) == Store(i, [samples[i] EXCEPT !.vx = vx], "setVx", vx)
setVy(i, vy) == Store(i, [samples[i] EXCEPT !.vy = vy], "setVy", vy)
setVSize(i, vsize) == Store(i, [samples[i] EXCEPT !.vsize = vsize], "setVSize", vsize)
setWeight(i, weight) == Store(i, [samples[i] EXCEPT !.weight = weight], "setWeight", weight)
setObject(i, object) == Store(i, [samples[i] EXCEPT !.object = object], "setObject", object)

\* static void setAspectRatio(double aspectRatio)
StoreAspectRatio(r) ==
    /\ Mutates
    /\ aspectRatio' = r
    /\ UNCHANGED <<samples, nextClusterId>>

setAspectRatio(r) ==
    /\ StoreAspectRatio(r)
    /\ call' = Called("setAspectRatio", 0, r, <<>>)

\* variant: width / height
RatioOfInverted(width, height) == Rat(width, height)

\* static_cast<double>(height) / static_cast<double>(width)
RatioOf(width, height) == Rat(height, width)

\* static void setAspectRatio(int width, int height)
setAspectRatioOf(width, height) ==
    /\ StoreAspectRatio(RatioOf(width, height))
    /\ call' = Called("setAspectRatio(width,height)", 0, <<width, height>>, <<>>)

\* ----------------------------------------------------------------- getters
\* a const member function of object i returned val
Returns(op, i, arg, val) ==
    /\ call' = Called(op, i, arg, val)
    /\ UNCHANGED <<samples, aspectRatio, nextClusterId, build, mutations>>

CallGetWidth(i) == Returns("getWidth", i, <<>>, getWidth(samples[i]))
CallGetHeight(i) == Returns("getHeight", i, <<>>, getHeight(samples[i]))
CallGetBounds(i) == Returns("getBounds", i, <<>>, getBounds(samples[i]))

\* ------------------------------------------------------------- comparisons
\* bool operator<(const Sample& other) const
Less(a, b) == RatLess(a.weight, b.weight)
\* bool operator>(const Sample& other) const
Greater(a, b) == RatLess(b.weight, a.weight)
\* WeightComparisonAsc::operator()
WeightComparisonAsc(lhs, rhs) == RatLess(lhs.weight, rhs.weight)
\* variant: descending as "not ascending"
WeightComparisonNotAsc(lhs, rhs) == ~RatLess(lhs.weight, rhs.weight)
\* WeightComparisonDesc::operator()
WeightComparisonDesc(lhs, rhs) == RatLess(rhs.weight, lhs.weight)

CallLess(i, j) == Returns("operator<", i, j, Less(samples[i], samples[j]))
CallGreater(i, j) == Returns("operator>", i, j, Greater(samples[i], samples[j]))
CallAsc(i, j) == Returns("WeightComparisonAsc", i, j, WeightComparisonAsc(samples[i], samples[j]))
CallDesc(i, j) == Returns("WeightComparisonDesc", i, j, WeightComparisonDesc(samples[i], samples[j]))

\* ------------------------------------------------------------ specification
Next ==
    \/ SampleDefault
    \/ \E a \in AtArgs : SampleAt(a[1], a[2], a[3])
    \/ \E a \in MovingArgs : SampleMoving(a[1], a[2], a[3], a[4], a[5], a[6])
    \/ \E j \in Live : SampleCopy(j)
    \/ \E i \in Live, j \in Live : SampleAssign(i, j)
    \/ \E i \in Live, x \in Coords : setX(i, x)
    \/ \E i \in Live, y \in Coords : setY(i, y)
    \/ \E i \in Live, size \in Sizes : setSize(i, size)
    \/ \E i \in Live, vx \in Velocities : setVx(i, vx)
    \/ \E i \in Live, vy \in Velocities : setVy(i, vy)
    \/ \E i \in Live, vsize \in VSizes : setVSize(i, vsize)
    \/ \E i \in Live, weight \in Weights : setWeight(i, weight)
    \/ \E i \in Live, object \in BOOLEAN : setObject(i, object)
    \/ \E r \in Ratios : setAspectRatio(r)
    \/ \E width \in RatioWidths, height \in RatioHeights : setAspectRatioOf(width, height)

Spec == Init /\ [][Next]_vars

\* ------------------------------------------- the derived getters on their own
\* Two live samples that agree or differ in (x, y, size) at will and differ in
\* every other member: the first as Sample(x, y, size) left it, the second
\* as Sample(x, y, size, 1, 1, 0.5f), setWeight(0.25), setObject(true) left it.
GeoCoords == {0, 3}
GeoSizes == (0 - MaxGeoSize)..MaxGeoSize
GeoRatios == {Rat(1, 4), Rat(1, 2), Rat(3, 4), One, Rat(3, 2)}

GeoFirst(x, y, size) == Members(x, y, size, 0, 0, One, One, FALSE, 0)
GeoSecond(x, y, size) == Members(x, y, size, 1, 1, Rat(1, 2), Rat(1, 4), TRUE, 1)

InitGeometry ==
    /\ samples \in {<<GeoFirst(x1, y1, s1), GeoSecond(x2, y2, s2)>> :
                       x1 \in GeoCoords, y1 \in GeoCoords, s1 \in GeoSizes,
                       x2 \in GeoCoords, y2 \in GeoCoords, s2 \in GeoSizes}
    /\ aspectRatio \in GeoRatios
    /\ nextClusterId = 2
    /\ build \in Builds
    /\ call = NoCall
    /\ mutations = 0

NextGeometry ==
    \/ \E i \in Live : CallGetWidth(i)
    \/ \E i \in Live : CallGetHeight(i)
    \/ \E i \in Live : CallGetBounds(i)

SpecGeometry == InitGeometry /\ [][NextGeometry]_vars

\* ---------------------------------------------- the comparisons on their own
\* Three live samples of every combination of weights, set by setWeight, whose
\* other members differ: Sample(), Sample(3, 0, 1) with setObject(true), and
\* Sample(0, 3, 2, 1, 1, 0.5f).
OrderWeights == {Rat(-1, 2), Zero, Rat(1, 4), One}

InitOrder ==
    /\ samples \in {<<Members(0, 0, 0, 0, 0, One, w1, FALSE, 0),
                      Members(3, 0, 1, 0, 0, One, w2, TRUE, 1),
                      Members(0, 3, 2, 1, 1, Rat(1, 2), w3, FALSE, 2)>> :
                       w1 \in OrderWeights, w2 \in OrderWeights, w3 \in OrderWeights}
    /\ aspectRatio = One
    /\ nextClusterId = 3
    /\ build \in Builds
    /\ call = NoCall
    /\ mutations = 0

NextOrder ==
    \/ \E i \in Live, j \in Live : CallLess(i, j)
    \/ \E i \in Live, j \in Live : CallGreater(i, j)
    \/ \E i \in Live, j \in Live : CallAsc(i, j)
    \/ \E i \in Live, j \in Live : CallDesc(i, j)

SpecOrder == InitOrder /\ [][NextOrder]_vars

\* =================================================================== claims
Positive(r) == r.n > 0
NonNegative(r) == r.n >= 0

\* h is an integer nearest to r * k:  |h - r * k| <= 1/2
NearestInt(h, r, k) == 2 * Abs(h * r.d - r.n * k) <= r.d

\* q is w / 2 with the fraction dropped: towards zero
TruncatedHalf(q, w) ==
    /\ Abs(w) - 2 * Abs(q) \in {0, 1}
    /\ q = 0 \/ (q > 0) = (w > 0)

\* cv::Rect::contains: the half-open rectangle holds the point
Contains(b, px, py) ==
    /\ b.x <= px /\ px < b.x + b.width
    /\ b.y <= py /\ py < b.y + b.height

SameRegion(a, b) == a.x = b.x /\ a.y = b.y /\ a.size = b.size

\* C1: getHeight() returns round(aspectRatio * size) for the aspect ratio
\* current at the call (an integer nearest to the product, exact ties broken
\* as the build's cvRound breaks them), getWidth() returns size, and any
\* sample of the same size gets the same answers whatever its other members.
C1_HeightIsRoundedRatioTimesSize ==
    /\ call.op = "getHeight" =>
          /\ NearestInt(call.val, aspectRatio, samples[call.self].size)
          /\ \A j \in Live : samples[j].size = samples[call.self].size
                                 => getHeight(samples[j]) = call.val
    /\ call.op = "getWidth" =>
          /\ call.val = samples[call.self].size
          /\ \A j \in Live : samples[j].size = samples[call.self].size
                                 => getWidth(samples[j]) = call.val

\* getHeight() has answered for a sample whose height differs from its size,
\* while the other sample has the same size and other velocities and weight
C1_Witness ==
    /\ call.op = "getHeight"
    /\ call.val # samples[call.self].size
    /\ call.val # 0
    /\ \E j \in Live : /\ j # call.self
                       /\ samples[j].size = samples[call.self].size
                       /\ samples[j].x # samples[call.self].x
                       /\ samples[j].weight # samples[call.self].weight

\* C6 as stated: getBounds() is (x - width / 2, y - height / 2, width, height)
\* with width = size, height = round(aspectRatio * size), truncating halves,
\* and for size >= 1 the centre (x, y) lies inside the rectangle.
C6_CentreInsideWheneverSizePositive ==
    call.op = "getBounds" =>
        LET s == samples[call.self]
            b == call.val
        IN  /\ b.width = s.size
            /\ NearestInt(b.height, aspectRatio, s.size)
            /\ TruncatedHalf(s.x - b.x, b.width)
            /\ TruncatedHalf(s.y - b.y, b.height)
            /\ s.size >= 1 => Contains(b, s.x, s.y)

\* C6 as amended: the same rectangle, a function of (x, y, size, aspectRatio)
\* alone; the centre lies inside it exactly when size >= 1 and the rounded
\* height is >= 1 too (for size >= 1 the centre's x is always within the
\* horizontal extent); the call changes no sample and neither static.
C6_BoundsFromRegionAndRatio ==
    /\ [](call.op = "getBounds" =>
            LET s == samples[call.self]
                b == call.val
            IN  /\ b.width = s.size
                /\ NearestInt(b.height, aspectRatio, s.size)
                /\ TruncatedHalf(s.x - b.x, b.width)
                /\ TruncatedHalf(s.y - b.y, b.height)
                /\ s.size >= 1 => (b.x <= s.x /\ s.x < b.x + b.width)
                /\ Contains(b, s.x, s.y) <=> (s.size >= 1 /\ b.height >= 1)
                /\ \A j \in Live : SameRegion(samples[j], s) => getBounds(samples[j]) = b)
    /\ [][call'.op = "getBounds" =>
            /\ samples' = samples
            /\ aspectRatio' = aspectRatio
            /\ nextClusterId' = nextClusterId]_vars

\* getBounds() has answered for a sample of odd size >= 1 whose rectangle holds
\* its centre, while the other sample covers the same region with other
\* velocities, weight, flag and id
C6_Witness ==
    /\ call.op = "getBounds"
    /\ samples[call.self].size = 3
    /\ call.val.height = 2
    /\ Contains(call.val, samples[call.self].x, samples[call.self].y)
    /\ \E j \in Live : /\ j # call.self
                       /\ SameRegion(samples[j], samples[call.self])
                       /\ samples[j].clusterId # samples[call.self].clusterId
                       /\ samples[j].object # samples[call.self].object

\* the four relations, on weights as the claim states them
WeightBelow(a, b) == a.weight.n * b.weight.d < b.weight.n * a.weight.d
SameWeight(a, b) == a.weight.n * b.weight.d = b.weight.n * a.weight.d

Unordered(R(_, _), a, b) == ~R(a, b) /\ ~R(b, a)

StrictWeakOnWeight(R(_, _)) ==
    \A a \in Live, b \in Live, c \in Live :
        /\ ~R(samples[a], samples[a])
        /\ (R(samples[a], samples[b]) /\ R(samples[b], samples[c])) => R(samples[a], samples[c])
        /\ SameWeight(samples[a], samples[b]) => ~R(samples[a], samples[b])
        /\ (Unordered(R, samples[a], samples[b]) /\ Unordered(R, samples[b], samples[c]))
              => Unordered(R, samples[a], samples[c])

\* C5: a < b and WeightComparisonAsc(a, b) hold exactly when a.weight < b.weight,
\* a > b and WeightComparisonDesc(a, b) exactly when a.weight > b.weight,
\* whatever the other members; each relation is irreflexive and transitive,
\* equal weights are ordered by neither (and being ordered by neither is
\* transitive, as a strict weak ordering needs), and Asc(a, b) = Desc(b, a).
C5_WeightOnlyStrictWeakOrder ==
    /\ call.op \in {"operator<", "WeightComparisonAsc"} =>
          call.val = WeightBelow(samples[call.self], samples[call.arg])
    /\ call.op \in {"operator>", "WeightComparisonDesc"} =>
          call.val = WeightBelow(samples[call.arg], samples[call.self])
    /\ StrictWeakOnWeight(Less)
    /\ StrictWeakOnWeight(Greater)
    /\ StrictWeakOnWeight(WeightComparisonAsc)
    /\ StrictWeakOnWeight(WeightComparisonDesc)
    /\ \A a \in Live, b \in Live :
          WeightComparisonAsc(samples[a], samples[b])
              = WeightComparisonDesc(samples[b], samples[a])

\* WeightComparisonDesc has put a heavier sample first although it lies at the
\* smaller x, and the three samples form a chain of three different weights
C5_Witness ==
    /\ call.op = "WeightComparisonDesc"
    /\ call.val = TRUE
    /\ samples[call.self].x < samples[call.arg].x
    /\ \E a \in Live, b \in Live, c \in Live :
          WeightBelow(samples[a], samples[b]) /\ WeightBelow(samples[b], samples[c])

CtorOps == {"Sample()", "Sample(x,y,size)", "Sample(x,y,size,vx,vy,vsize)"}
SetterOps == {"setX", "setY", "setSize", "setVx", "setVy", "setVSize", "setWeight", "setObject"}
Fields == {"x", "y", "size", "vx", "vy", "vsize", "weight", "object", "clusterId"}

\* the newest object after a step
Newest == samples'[Len(samples')]

\* how many live samples hold cluster id c
Holders(ss, c) == Cardinality({k \in 1..Len(ss) : ss[k].clusterId = c})

\* C2: each of the three constructors gives the new sample the current
\* nextClusterId and increments the counter by exactly one, so the new id is
\* greater than the id of every sample already alive (hence distinct from all
\* of them), and nextClusterId never decreases.
C2_ConstructorsDrawIncreasingIds ==
    [][/\ nextClusterId' >= nextClusterId
       /\ call'.op \in CtorOps =>
             /\ Len(samples') = Len(samples) + 1
             /\ call'.self = Len(samples')
             /\ Newest.clusterId = nextClusterId
             /\ nextClusterId' = nextClusterId + 1
             /\ \A i \in Live : /\ samples'[i] = samples[i]
                                /\ samples[i].clusterId < Newest.clusterId]_vars

\* a second sample was just built by the six-argument constructor, after a
\* first one, and holds the greater id
C2_Witness ==
    /\ call.op = "Sample(x,y,size,vx,vy,vsize)"
    /\ Len(samples) = 2
    /\ samples[1].clusterId = 0
    /\ samples[2].clusterId = 1
    /\ nextClusterId = 2

\* C3: copying a sample yields a sample with the original's clusterId, x, y,
\* size, vx, vy, vsize, weight and object and does not advance nextClusterId;
\* the existing samples are untouched and only the number of holders of the
\* copied clusterId changes (by one).
C3_CopyKeepsClusterId ==
    [][call'.op = "Sample(const Sample&)" =>
          LET src == samples[call'.arg]
          IN  /\ call'.arg \in Live
              /\ Len(samples') = Len(samples) + 1
              /\ \A f \in Fields : Newest[f] = src[f]
              /\ nextClusterId' = nextClusterId
              /\ aspectRatio' = aspectRatio
              /\ \A i \in Live : samples'[i] = samples[i]
              /\ \A c \in 0..nextClusterId :
                    Holders(samples', c) = Holders(samples, c)
                                             + (IF c = src.clusterId THEN 1 ELSE 0)]_vars

\* a sample whose weight and flag had been set was just copied: two samples
\* hold its id, and the counter still stands at one
C3_Witness ==
    /\ call.op = "Sample(const Sample&)"
    /\ Len(samples) = 2
    /\ samples[2] = samples[1]
    /\ samples[1].weight # One
    /\ samples[1].object = TRUE
    /\ Holders(samples, 0) = 2
    /\ nextClusterId = 1

\* C4 as stated: once a sample is constructed, no operation on Sample changes
\* the value its getClusterId() returns.
C4_ClusterIdNeverChanges ==
    [][\A i \in Live : getClusterId(samples'[i]) = getClusterId(samples[i])]_vars

\* C4 as amended: a sample's getClusterId() stays the same under every setter,
\* setAspectRatio, and the construction or copying of other samples; the one
\* operation that changes it is the assignment of another sample's value to
\* it, after which it returns that other sample's clusterId.
C4_ClusterIdChangesOnlyByAssignment ==
    [][\A i \in Live :
          getClusterId(samples'[i]) # getClusterId(samples[i]) =>
              /\ call'.op = "operator="
              /\ call'.self = i
              /\ call'.arg \in Live
              /\ getClusterId(samples'[i]) = getClusterId(samples[call'.arg])]_vars

\* the second of two constructed samples was just assigned the first one's
\* value and now reports the first one's id
C4_Witness ==
    /\ call.op = "operator="
    /\ call.self = 2
    /\ call.arg = 1
    /\ nextClusterId = 2
    /\ getClusterId(samples[2]) = 0

\* C7: the aspect ratio is one value shared by all samples: after
\* setAspectRatio(r) it is r, after setAspectRatio(width, height) it is
\* height / width, every live sample (all of them built before the call) then
\* has its height and its bounds by the new ratio, and two samples of equal
\* size always have equal height.
C7_OneSharedAspectRatio ==
    /\ call.op = "setAspectRatio" => aspectRatio = call.arg
    /\ call.op = "setAspectRatio(width,height)" =>
          aspectRatio.n * call.arg[1] = call.arg[2] * aspectRatio.d
    /\ call.op \in {"setAspectRatio", "setAspectRatio(width,height)"} =>
          \A i \in Live :
              LET r == IF call.op = "setAspectRatio" THEN call.arg
                       ELSE [n |-> call.arg[2], d |-> call.arg[1]]
              IN  /\ NearestInt(getHeight(samples[i]), r, samples[i].size)
                  /\ getBounds(samples[i]).height = getHeight(samples[i])
                  /\ NearestInt(getBounds(samples[i]).height, r, samples[i].size)
    /\ \A i \in Live, j \in Live :
          samples[i].size = samples[j].size => getHeight(samples[i]) = getHeight(samples[j])

\* setAspectRatio(4, 3) was just called with two samples of size 2 alive, at
\* different places: both now are 2 wide and 2 high (1.5 rounded)
C7_Witness ==
    /\ call.op = "setAspectRatio(width,height)"
    /\ call.arg = <<4, 3>>
    /\ Len(samples) = 2
    /\ samples[1].size = 2 /\ samples[2].size = 2
    /\ samples[1].y # samples[2].y
    /\ getHeight(samples[1]) = 2
    /\ getBounds(samples[2]).height = 2

\* C8 as stated: in every reachable state every sample has vsize > 0.
C8_VSizeAlwaysPositive ==
    \A i \in Live : Positive(samples[i].vsize)

\* C8 as amended: the class does not keep vsize > 0 by itself.  The default
\* and the three-argument constructor set vsize = 1; a sample's vsize becomes
\* non-positive only when a non-positive value is passed to the six-argument
\* constructor or to setVSize, or when the sample is copied or assigned from a
\* sample whose vsize is non-positive.  So vsize > 0 holds as long as every
\* vsize passed in is positive.
C8_VSizePositiveUnlessPassedIn ==
    [][\A i \in 1..Len(samples') :
          (~Positive(samples'[i].vsize) /\ (i \in Live => Positive(samples[i].vsize))) =>
              /\ call'.self = i
              /\ \/ call'.op = "setVSize" /\ ~Positive(call'.arg)
                 \/ call'.op = "Sample(x,y,size,vx,vy,vsize)" /\ ~Positive(call'.arg[6])
                 \/ /\ call'.op \in {"Sample(const Sample&)", "operator="}
                    /\ ~Positive(samples[call'.arg].vsize)]_vars

\* setVSize(0.5) was just called on a sample built by the three-argument
\* constructor, and every live sample has vsize > 0
C8_Witness ==
    /\ call.op = "setVSize"
    /\ Positive(call.arg)
    /\ samples[call.self].vsize = call.arg
    /\ Len(samples) = 2
    /\ \A i \in Live : Positive(samples[i].vsize)

\* C9 as stated: in every reachable state every sample's weight is
\* non-negative (a fresh sample has weight one and object = false).
C9_WeightAlwaysNonNegative ==
    \A i \in Live : NonNegative(samples[i].weight)

\* C9 as amended: a freshly constructed sample has weight one and
\* object = false; the class does not keep the weight non-negative by itself:
\* a sample's weight becomes negative only when a negative value is passed to
\* setWeight, or when the sample is copied or assigned from a sample of
\* negative weight.  So weight >= 0 holds as long as every weight passed to
\* setWeight is non-negative.
C9_WeightNonNegativeUnlessPassedIn ==
    [][/\ call'.op \in CtorOps => (Newest.weight = One /\ Newest.object = FALSE)
       /\ \A i \in 1..Len(samples') :
             (~NonNegative(samples'[i].weight) /\ (i \in Live => NonNegative(samples[i].weight))) =>
                 /\ call'.self = i
                 /\ \/ call'.op = "setWeight" /\ ~NonNegative(call'.arg)
                    \/ /\ call'.op \in {"Sample(const Sample&)", "operator="}
                       /\ ~NonNegative(samples[call'.arg].weight)]_vars

\* setWeight(0.25) was just called on one of two samples; the other still has
\* the weight one and the cleared flag it was constructed with
C9_Witness ==
    /\ call.op = "setWeight"
    /\ NonNegative(call.arg)
    /\ samples[call.self].weight = call.arg
    /\ Len(samples) = 2
    /\ \E j \in Live : j # call.self /\ samples[j].weight = One /\ samples[j].object = FALSE

FieldOf(op) ==
    CASE op = "setX" -> "x"
      [] op = "setY" -> "y"
      [] op = "setSize" -> "size"
      [] op = "setVx" -> "vx"
      [] op = "setVy" -> "vy"
      [] op = "setVSize" -> "vsize"
      [] op = "setWeight" -> "weight"
      [] op = "setObject" -> "object"

GetterAfter(op, s) ==
    CASE op = "setX" -> getX(s)
      [] op = "setY" -> getY(s)
      [] op = "setSize" -> getSize(s)
      [] op = "setVx" -> getVx(s)
      [] op = "setVy" -> getVy(s)
      [] op = "setVSize" -> getVSize(s)
      [] op = "setWeight" -> getWeight(s)
      [] op = "setObject" -> isObject(s)

\* C10: every setter changes exactly the member it names on the sample it is
\* called on: that sample's other members, every other sample, the aspect
\* ratio and nextClusterId are unchanged, and the matching getter then returns
\* the value just set.
C10_SettersChangeOneField ==
    [][call'.op \in SetterOps =>
          LET i == call'.self
              f == FieldOf(call'.op)
          IN  /\ i \in Live
              /\ Len(samples') = Len(samples)
              /\ \A j \in Live \ {i} : samples'[j] = samples[j]
              /\ \A g \in Fields \ {f} : samples'[i][g] = samples[i][g]
              /\ samples'[i][f] = call'.arg
              /\ GetterAfter(call'.op, samples'[i]) = call'.arg
              /\ aspectRatio' = aspectRatio
              /\ nextClusterId' = nextClusterId]_vars

\* setVy(1) was just called on the first of two samples whose vx is still 0,
\* while the second sample's vy is still 0
C10_Witness ==
    /\ call.op = "setVy"
    /\ call.self = 1
    /\ Len(samples) = 2
    /\ getVy(samples[1]) = 1
    /\ getVx(samples[1]) = 0
    /\ getVy(samples[2]) = 0

====
